---- MODULE Spec2Model ----
(***************************************************************************)
(* Model of slinky's synchronization engine: the ignore matcher, the       *)
(* package planner and operation executor of src/src/stow.rs, the one-shot *)
(* link path of src/src/cli.rs and the singleton daemon lifecycle of       *)
(* src/src/daemon.rs, and the conflict resolver, the automatic link and    *)
(* the reconciliation loop of the daemon.                                  *)
(*                                                                         *)
(* Strings are sequences of one-character strings, so that prefix, suffix  *)
(* and substring tests are computed as the Rust code computes them.        *)
(***************************************************************************)
EXTENDS Integers, Sequences, FiniteSets, TLC

VARIABLES
    ign,        \* one call of is_ignored: its inputs and its result
    pkg,        \* the package source tree (entries, ignore file, read_dir order)
    tgt,        \* the target tree: what sits at each target path
    plan,       \* the operation list held by the caller of analyze_package
    last,       \* the most recent planner / executor / link call and its result
    marker,     \* content of the PID marker file daemon.pid
    proc,       \* the processes that run daemon commands
    src,        \* the source root stow_dir: its kind and its immediate entries
    homes,      \* for each package name, the part of the target tree its files map to
    bak,        \* what sits at the path target + ".backup" of each target path
    dmn         \* the reconciliation loop of one daemon: configuration, channel, pending work

vars == <<ign, pkg, tgt, plan, last, marker, proc, src, homes, bak, dmn>>

(***************************************************************************)
(* Bounds                                                                  *)
(***************************************************************************)
MaxSegLen  == 5    \* longest path segment tried against the rule *.tmp
MaxDirLen  == 1    \* longest directory segment in front of a file name
MaxLitLen  == 3    \* longest path segment tried against literal rules
MaxRuleLen == 3    \* longest literal rule
MaxProcs   == 3    \* processes that run a daemon command
MaxTextLen == 3    \* longest text matched against a rule prefix*suffix
MaxPartLen == 2    \* longest prefix and longest suffix of such a rule

(***************************************************************************)
(* String helpers (str::starts_with, ends_with, find, contains, split)     *)
(***************************************************************************)
Strs(A, n) == UNION {[1..k -> A] : k \in 0..n}

Drop(s, n) == SubSeq(s, n + 1, Len(s))

starts_with(s, p) == Len(p) <= Len(s) /\ SubSeq(s, 1, Len(p)) = p

ends_with(s, p) == Len(p) <= Len(s) /\ SubSeq(s, Len(s) - Len(p) + 1, Len(s)) = p

\* str::find: byte offset of the first occurrence, -1 standing for None
find(s, p) ==
    LET hits == {i \in 0..(Len(s) - Len(p)) : SubSeq(s, i + 1, i + Len(p)) = p}
    IN  IF hits = {} THEN -1 ELSE CHOOSE i \in hits : \A j \in hits : i <= j

contains(s, p) == find(s, p) >= 0

RECURSIVE split(_, _)
split(s, c) ==
    LET hits == {i \in 1..Len(s) : s[i] = c}
    IN  IF hits = {} THEN <<s>>
        ELSE LET i == CHOOSE h \in hits : \A j \in hits : h <= j
             IN  <<SubSeq(s, 1, i - 1)>> \o split(Drop(s, i), c)

\* Path::file_name of a relative path made of normal components
file_name(p) == LET parts == split(p, "/") IN parts[Len(parts)]

(***************************************************************************)
(* Ignore matcher                                                          *)
(***************************************************************************)
RECURSIVE glob_loop(_, _, _, _)
glob_loop(text, pattern_parts, i, text_pos) ==
    IF i > Len(pattern_parts) THEN TRUE
    ELSE LET part == pattern_parts[i]
             rest == Drop(text, text_pos)
         IN  IF part = <<>> THEN glob_loop(text, pattern_parts, i + 1, text_pos)
             ELSE IF i = 1
                  THEN IF ~starts_with(rest, part) THEN FALSE
                       ELSE glob_loop(text, pattern_parts, i + 1, text_pos + Len(part))
             ELSE IF i = Len(pattern_parts)
                  THEN ends_with(rest, part)
             ELSE IF find(rest, part) >= 0
                  THEN glob_loop(text, pattern_parts, i + 1,
                                 text_pos + find(rest, part) + Len(part))
                  ELSE FALSE

\* variant: every part only has to occur somewhere in the text
glob_match_unanchored(text, pattern) ==
    LET pattern_parts == split(pattern, "*")
    IN  \A i \in 1..Len(pattern_parts) : contains(text, pattern_parts[i])

glob_match(text, pattern) ==
    LET pattern_parts == split(pattern, "*")
    IN  IF Len(pattern_parts) = 0 THEN text = <<>>
        ELSE glob_loop(text, pattern_parts, 1, 0)

has_star(pattern) == \E i \in 1..Len(pattern) : pattern[i] = "*"

\* variant: a literal rule is compared with the file name only
pattern_hits_exact(path, pattern) ==
    \/ has_star(pattern) /\ glob_match(path, pattern)
    \/ file_name(path) = pattern

\* one iteration of the loop of is_ignored: does this pattern return true
pattern_hits(path, pattern) ==
    \/ IF has_star(pattern) THEN glob_match(path, pattern)
                            ELSE contains(path, pattern)
    \/ file_name(path) = pattern

\* variant: no rule ever applies
is_ignored_never(path, patterns) == FALSE

\* variant: only the first pattern the iterator yields is consulted
is_ignored_first(path, patterns) ==
    patterns # <<>> /\ pattern_hits(path, Head(patterns))

\* patterns is the HashSet in the order its iterator yields it
RECURSIVE is_ignored(_, _)
is_ignored(path, patterns) ==
    IF patterns = <<>> THEN FALSE
    ELSE IF pattern_hits(path, Head(patterns)) THEN TRUE
    ELSE is_ignored(path, Tail(patterns))

(***************************************************************************)
(* Inputs of the ignore matcher                                            *)
(***************************************************************************)
StarTmp == <<"*", ".", "t", "m", "p">>
DotTmp  == <<".", "t", "m", "p">>

TmpAlphabet == {".", "t", "m", "p", "x"}
LitAlphabet == {"a", "b", "."}
\* characters of the directory segment in front of a file name
TmpDirAlphabet == {"x", "."}
LitDirAlphabet == {"b", "."}

PathsOver(A, D, segLen) ==
    LET dots == {<<>>, <<".">>, <<".", ".">>}    \* not names of directory entries
        segs == Strs(A, segLen) \ dots
        dirs == Strs(D, MaxDirLen) \ dots
    IN  segs \cup {d \o <<"/">> \o s : d \in dirs, s \in segs}

LiteralRules(n) == Strs(LitAlphabet \cup {"/"}, n) \ {<<>>}

\* the calls of is_ignored tried: the rule *.tmp, and every literal rule
IgnoreInputs(tmp) ==
    IF tmp
    THEN {[path |-> p, patterns |-> <<StarTmp>>] : p \in PathsOver(TmpAlphabet, TmpDirAlphabet, MaxSegLen)}
    ELSE {[path |-> p, patterns |-> <<r>>] :
             p \in PathsOver(LitAlphabet, LitDirAlphabet, MaxLitLen), r \in LiteralRules(MaxRuleLen)}

(***************************************************************************)
(* The package source tree and the target tree                             *)
(*                                                                         *)
(* One package with the entries below.  A path is named by an identifier;  *)
(* RelStr gives the string form of its path relative to the package root   *)
(* (and, for a target, relative to the target root).                       *)
(***************************************************************************)
IgnoreFile == "ign"
RootIds    == {IgnoreFile, "keep.txt", "ignore.tmp", "conf"}
PIds       == RootIds \cup {"conf/init.lua"}
TIds       == PIds \ {IgnoreFile}
DirIds     == {"conf"}

RelStr(id) ==
    CASE id = IgnoreFile      -> <<".", "s", "t", "o", "w", "-", "l", "o", "c", "a", "l",
                                   "-", "i", "g", "n", "o", "r", "e">>
      [] id = "keep.txt"      -> <<"k", "e", "e", "p", ".", "t", "x", "t">>
      [] id = "ignore.tmp"    -> <<"i", "g", "n", "o", "r", "e", ".", "t", "m", "p">>
      [] id = "conf"          -> <<"c", "o", "n", "f">>
      [] id = "conf/init.lua" -> <<"c", "o", "n", "f", "/", "i", "n", "i", "t", ".",
                                   "l", "u", "a">>

Parent(id) == IF id = "conf/init.lua" THEN "conf" ELSE "root"

\* lines an ignore file can hold
LineStarTmp == StarTmp
LinePadded  == <<" ">> \o StarTmp \o <<" ">>
LineConf    == <<"c", "o", "n", "f">>
LineComment == <<"#", " ", "x">>
LineBlank   == <<>>

Absent == [kind |-> "absent", val |-> ""]
Dir    == [kind |-> "dir", val |-> ""]
File(c) == [kind |-> "file", val |-> c]
Link(v) == [kind |-> "link", val |-> v]

Contents == {"c1"}

\* Path::exists follows symbolic links; Path::is_symlink does not
reachable(t, id) == IF Parent(id) = "root" THEN TRUE ELSE t[Parent(id)].kind = "dir"

link_resolves(v) == IF v \in PIds THEN v \in pkg.entries ELSE v = "other"

exists(t, id) ==
    /\ reachable(t, id)
    /\ \/ t[id].kind \in {"file", "dir"}
       \/ t[id].kind = "link" /\ link_resolves(t[id].val)

is_symlink(t, id) == reachable(t, id) /\ t[id].kind = "link"

\* fs::read_dir of a package directory, in the order the file system yields
read_dir(dir) ==
    LET all == IF dir = "root" THEN pkg.order ELSE <<"conf/init.lua">>
    IN  SelectSeq(all, LAMBDA e : e \in pkg.entries)

(***************************************************************************)
(* Planner                                                                 *)
(***************************************************************************)
RECURSIVE trim(_)
trim(s) ==
    IF s # <<>> /\ Head(s) = " " THEN trim(Tail(s))
    ELSE IF s # <<>> /\ s[Len(s)] = " " THEN trim(SubSeq(s, 1, Len(s) - 1))
    ELSE s

\* the HashSet of patterns read from .stow-local-ignore
load_stow_ignore ==
    IF IgnoreFile \notin pkg.entries THEN {}
    ELSE {trim(pkg.ignore[i]) : i \in {j \in 1..Len(pkg.ignore) :
              trim(pkg.ignore[j]) # <<>> /\ Head(trim(pkg.ignore[j])) # "#"}}

\* the orders in which a HashSet can be iterated
Orders(S) == {s \in [1..Cardinality(S) -> S] : \A i, j \in 1..Cardinality(S) :
                                                   s[i] = s[j] => i = j}

SkipIgnored == "Skip(Ignored by .stow-local-ignore)"
SkipLinked  == "Skip(Already linked correctly)"

\* variant: a plain file at the target is not a conflict
determine_operation_overwrites(t, source, target) ==
    IF ~exists(t, target) \/ ~is_symlink(t, target)
    THEN [err |-> "", op_type |-> "Create"]
    ELSE IF t[target].val = source
         THEN [err |-> "", op_type |-> SkipLinked]
         ELSE [err |-> "ConflictDetected", op_type |-> ""]

\* variant: a symlink at the target is a conflict wherever it points
determine_operation_no_skip(t, source, target) ==
    IF ~exists(t, target) THEN [err |-> "", op_type |-> "Create"]
    ELSE [err |-> "ConflictDetected", op_type |-> ""]

determine_operation(t, source, target) ==
    IF ~exists(t, target) THEN [err |-> "", op_type |-> "Create"]
    ELSE IF is_symlink(t, target)
         THEN IF t[target].val = source
              THEN [err |-> "", op_type |-> SkipLinked]
              ELSE [err |-> "ConflictDetected", op_type |-> ""]
    ELSE [err |-> "ConflictDetected", op_type |-> ""]

\* the loop of scan_package_recursive over the entries of one directory;
\* a result with err # "" is the early return of the ? operator
RECURSIVE scan_package_recursive(_, _, _, _)
scan_package_recursive(t, entries, ignore_patterns, operations) ==
    IF entries = <<>> THEN [err |-> "", at |-> "", ops |-> operations]
    ELSE LET path == Head(entries)
             rest == Tail(entries)
         IN  IF file_name(RelStr(path)) = RelStr(IgnoreFile)
             THEN scan_package_recursive(t, rest, ignore_patterns, operations)
             ELSE IF is_ignored(RelStr(path), ignore_patterns)
             THEN scan_package_recursive(t, rest, ignore_patterns,
                      Append(operations, [source |-> path, target |-> path,
                                          op_type |-> SkipIgnored]))
             ELSE IF path \in DirIds
             THEN LET sub == scan_package_recursive(t, read_dir(path),
                                                    ignore_patterns, operations)
                  IN  IF sub.err # "" THEN sub
                      ELSE scan_package_recursive(t, rest, ignore_patterns, sub.ops)
             ELSE LET d == determine_operation(t, path, path)
                  IN  IF d.err # "" THEN [err |-> d.err, at |-> path, ops |-> <<>>]
                      ELSE scan_package_recursive(t, rest, ignore_patterns,
                               Append(operations, [source |-> path, target |-> path,
                                                   op_type |-> d.op_type]))

analyze_package(t, ignore_patterns) ==
    scan_package_recursive(t, read_dir("root"), ignore_patterns, <<>>)

(***************************************************************************)
(* Executor                                                                *)
(***************************************************************************)
\* variant: whatever stands in the way of the parent directory is replaced
create_symlink_forced(t, op) ==
    LET parent == Parent(op.target)
        t1 == IF parent # "root" /\ t[parent].kind # "dir"
              THEN [t EXCEPT ![parent] = Dir] ELSE t
    IN  IF t1[op.target].kind # "absent" THEN [err |-> "Io", t |-> t1]
        ELSE [err |-> "", t |-> [t1 EXCEPT ![op.target] = Link(op.source)]]

\* fs::create_dir_all(parent) followed by symlink(source, target)
create_symlink(t, op) ==
    LET parent == Parent(op.target)
        t1 == IF parent # "root" /\ ~exists(t, parent) /\ t[parent].kind = "absent"
              THEN [t EXCEPT ![parent] = Dir] ELSE t
        mkdir_fails == parent # "root" /\ ~exists(t, parent) /\ t[parent].kind # "absent"
    IN  IF mkdir_fails THEN [err |-> "Io", t |-> t]
        ELSE IF ~reachable(t1, op.target) \/ t1[op.target].kind # "absent"
             THEN [err |-> "Io", t |-> t1]
        ELSE [err |-> "", t |-> [t1 EXCEPT ![op.target] = Link(op.source)]]

\* fs::remove_file(target) of a symlink
remove_symlink(t, op) == [t EXCEPT ![op.target] = Absent]

\* variant: whatever is at the target is removed
remove_target_always(t, op) ==
    [t |-> remove_symlink(t, op), result |-> "Removed symlink"]

\* the real run of a Remove: only a symlink is removed
remove_target(t, op) ==
    IF is_symlink(t, op.target)
    THEN [t |-> remove_symlink(t, op), result |-> "Removed symlink"]
    ELSE [t |-> t, result |-> "Skipped non-symlink"]

RECURSIVE execute_loop(_, _, _, _)
execute_loop(t, ops, dry_run, results) ==
    IF ops = <<>> THEN [err |-> "", t |-> t, results |-> results]
    ELSE LET op == Head(ops) IN
         IF op.op_type = "Create"
         THEN IF dry_run
              THEN execute_loop(t, Tail(ops), dry_run,
                                      Append(results, "[DRY-RUN] Would create symlink"))
              ELSE LET c == create_symlink(t, op)
                   IN  IF c.err # "" THEN [err |-> c.err, t |-> c.t, results |-> <<>>]
                       ELSE execute_loop(c.t, Tail(ops), dry_run,
                                               Append(results, "Created symlink"))
         ELSE IF op.op_type = "Remove"
         THEN IF dry_run
              THEN execute_loop(t, Tail(ops), dry_run,
                                      Append(results, "[DRY-RUN] Would remove symlink"))
              ELSE LET r == remove_target(t, op)
                   IN  execute_loop(r.t, Tail(ops), dry_run, Append(results, r.result))
         ELSE execute_loop(t, Tail(ops), dry_run, Append(results, "Skipped"))

\* variant: a failed run leaves the target tree as it found it
execute_operations_undone(t, ops, dry_run) ==
    LET r == execute_loop(t, ops, dry_run, <<>>)
    IN  IF r.err # "" THEN [r EXCEPT !.t = t] ELSE r

\* variant: the dry_run flag is not honoured
execute_operations_for_real(t, ops, dry_run) == execute_loop(t, ops, FALSE, <<>>)

\* let mut results = Vec::new(); for op in ops { ... } Ok(results)
execute_operations(t, ops, dry_run) == execute_loop(t, ops, dry_run, <<>>)

(***************************************************************************)
(* Calls of the planner, the executor and the one-shot link command        *)
(***************************************************************************)
MaxOps == 2    \* longest operation list handed to the executor directly

Range(s) == {s[i] : i \in 1..Len(s)}

\* the record of a call; prev remembers the call before it: its name, or
\* "applied" for an executor run on the planner's list that created links
Call(op, dry, res, at, out) ==
    [op |-> op, dry |-> dry, res |-> res, at |-> at, out |-> out,
     prev |-> IF /\ last.op = "execute" /\ ~last.dry /\ last.res = "Ok"
                 /\ "Created symlink" \in Range(last.out)
              THEN "applied" ELSE last.op]

NoCall == [op |-> "none", dry |-> FALSE, res |-> "", at |-> "", out |-> <<>>,
           prev |-> "none"]

\* let operations = analyze_package(&package_path, &target_dir)
AnalyzePackage ==
    \E ignore_patterns \in Orders(load_stow_ignore) :
        LET r == analyze_package(tgt, ignore_patterns)
        IN  /\ plan' = r.ops
            /\ last' = Call("analyze", FALSE, IF r.err = "" THEN "Ok" ELSE r.err, r.at, <<>>)
            /\ UNCHANGED <<src, homes, bak, dmn, ign, pkg, tgt, marker, proc>>

\* execute_operations(&operations, dry_run) on the list analyze_package returned
ExecutePlan ==
    /\ \/ last.op = "analyze" /\ last.res = "Ok"
       \/ last.op = "execute"
    /\ \E dry_run \in BOOLEAN :
        LET r == execute_operations(tgt, plan, dry_run)
        IN  /\ tgt' = r.t
            /\ last' = Call("execute", dry_run, IF r.err = "" THEN "Ok" ELSE r.err,
                            "", r.results)
            /\ UNCHANGED <<src, homes, bak, dmn, ign, pkg, plan, marker, proc>>

\* the operations a caller can put into a list of its own
AnyOps ==
    {[source |-> id, target |-> id, op_type |-> k] :
        id \in {"keep.txt", "conf/init.lua"}, k \in {"Create", "Remove"}}
    \cup {[source |-> "conf", target |-> "conf", op_type |-> "Remove"],
          [source |-> "keep.txt", target |-> "keep.txt", op_type |-> SkipIgnored]}

OpLists(n) == UNION {[1..k -> AnyOps] : k \in 0..n}

\* execute_operations(ops, dry_run) on an arbitrary operation list
ExecuteList(ops, dry_run) ==
    LET r == execute_operations(tgt, ops, dry_run)
    IN  /\ tgt' = r.t
        /\ last' = Call("execute_list", dry_run, IF r.err = "" THEN "Ok" ELSE r.err,
                        "", r.results)
        /\ plan' = <<>>
        /\ UNCHANGED <<src, homes, bak, dmn, ign, pkg, marker, proc>>

ExecuteOperations == \E ops \in OpLists(MaxOps), dry_run \in BOOLEAN : ExecuteList(ops, dry_run)

\* execute_operations(ops, dry_run) as the one call of a run; the caller keeps
\* its list
ExecuteOnce ==
    /\ last.op = "none"
    /\ \E ops \in OpLists(MaxOps), dry_run \in BOOLEAN :
        LET r == execute_operations(tgt, ops, dry_run)
        IN  /\ tgt' = r.t
            /\ last' = Call("execute_once", dry_run, IF r.err = "" THEN "Ok" ELSE r.err,
                            "", r.results)
            /\ plan' = ops
    /\ UNCHANGED <<src, homes, bak, dmn, ign, pkg, marker, proc>>

\* slinky link <package>, with or without --dry-run
LinkSinglePackage ==
    \E ignore_patterns \in Orders(load_stow_ignore), cli_dry_run \in BOOLEAN :
        LET a == analyze_package(tgt, ignore_patterns)
            create_ops == SelectSeq(a.ops, LAMBDA op : op.op_type = "Create")
            r == execute_operations(tgt, a.ops, FALSE)
        IN  /\ plan' = a.ops
            /\ IF a.err # ""
               THEN /\ last' = Call("link", cli_dry_run, a.err, a.at, <<>>)
                    /\ tgt' = tgt
               ELSE IF create_ops = <<>>
               THEN /\ last' = Call("link", cli_dry_run, "Ok(false)", "", <<>>)
                    /\ tgt' = tgt
               ELSE IF cli_dry_run
               THEN /\ last' = Call("link", cli_dry_run, "Ok(true)", "", <<>>)
                    /\ tgt' = tgt
               ELSE /\ last' = Call("link", cli_dry_run,
                                    IF r.err = "" THEN "Ok(true)" ELSE r.err, "", r.results)
                    /\ tgt' = r.t
            /\ UNCHANGED <<src, homes, bak, dmn, ign, pkg, marker, proc>>

\* one call of is_ignored on the chosen input
IsIgnored ==
    /\ ~ign.done
    /\ ign' = [ign EXCEPT !.done = TRUE, !.ignored = is_ignored(ign.path, ign.patterns)]
    /\ UNCHANGED <<src, homes, bak, dmn, pkg, tgt, plan, last, marker, proc>>

(***************************************************************************)
(* The source root and package discovery                                   *)
(*                                                                         *)
(* Names of directory entries are strings like every other string of the   *)
(* model.  An entry of the source root is a directory, a plain file or a   *)
(* symbolic link to a directory.                                           *)
(***************************************************************************)
NameA      == <<"a">>
NameB      == <<"b">>
NameHidden == <<".", "h">>
NameGit    == <<".", "g", "i", "t">>
NameFile   == <<"f">>
NameTmp    == <<"f", ".", "t", "m", "p">>

PkgNames == {NameA, NameB}
Names    == PkgNames \cup {NameHidden}

\* Path::is_dir follows symbolic links
path_is_dir(s, name) == name \in Names /\ s.root = "dir" /\ s.kinds[name] \in {"dir", "dirlink"}

\* fs::read_dir(stow_dir), in the order the file system yields
read_source(s) == SelectSeq(s.order, LAMBDA n : s.kinds[n] # "absent")

\* variant: hidden directories are packages too
find_packages_hidden(s) ==
    IF s.root # "dir" THEN [err |-> "InvalidPath", packages |-> <<>>]
    ELSE [err |-> "", packages |-> SelectSeq(read_source(s), LAMBDA n : path_is_dir(s, n))]

find_packages(s) ==
    IF s.root = "absent" THEN [err |-> "InvalidPath", packages |-> <<>>]
    ELSE IF s.root # "dir" THEN [err |-> "InvalidPath", packages |-> <<>>]
    ELSE [err |-> "",
          packages |-> SelectSeq(read_source(s),
                           LAMBDA n : path_is_dir(s, n) /\ ~starts_with(n, <<".">>))]

(***************************************************************************)
(* Conflict resolver                                                       *)
(***************************************************************************)
Policies == {"Backup", "Skip", "Overwrite"}

\* whether fs::copy and fs::remove_file / fs::remove_dir_all succeed
IoAllOk == [copy_ok |-> TRUE, remove_ok |-> TRUE]
IoModes == {IoAllOk, [copy_ok |-> FALSE, remove_ok |-> TRUE],
            [copy_ok |-> TRUE, remove_ok |-> FALSE]}

\* Path::is_dir of a target path (no link of the target tree leads to a directory)
is_dir(t, id) == reachable(t, id) /\ t[id].kind = "dir"

\* fs::remove_dir_all(target)
remove_dir_all(t, id) ==
    [c \in TIds |-> IF c = id \/ Parent(c) = id THEN Absent ELSE t[c]]

\* fs::copy(path, path + ".backup"): only a regular file can be copied
backup_file(t, b, path, io) ==
    IF io.copy_ok /\ reachable(t, path) /\ t[path].kind = "file"
    THEN [err |-> "", b |-> [b EXCEPT ![path] = t[path]]]
    ELSE [err |-> "Io", b |-> b]

\* variant: Backup deletes the original whether or not the copy was made
handle_conflict_backup_unchecked(t, b, target, resolution, io) ==
    IF resolution = "Backup" /\ exists(t, target) /\ ~is_symlink(t, target)
    THEN [err |-> "", proceed |-> TRUE, t |-> remove_dir_all(t, target),
          b |-> backup_file(t, b, target, io).b]
    ELSE [err |-> "", proceed |-> resolution # "Skip", t |-> t, b |-> b]

\* variant: Skip clears the target like Overwrite
handle_conflict_skip_clears(t, b, target, resolution, io) ==
    IF exists(t, target)
    THEN [err |-> "", proceed |-> resolution # "Skip", t |-> remove_dir_all(t, target), b |-> b]
    ELSE [err |-> "", proceed |-> resolution # "Skip", t |-> t, b |-> b]

handle_conflict(t, b, target, resolution, io) ==
    CASE resolution = "Backup" ->
             IF exists(t, target) /\ ~is_symlink(t, target)
             THEN LET c == backup_file(t, b, target, io)
                  IN  IF c.err # ""
                      THEN [err |-> c.err, proceed |-> FALSE, t |-> t, b |-> c.b]
                      ELSE IF ~io.remove_ok
                      THEN [err |-> "Io", proceed |-> FALSE, t |-> t, b |-> c.b]
                      ELSE [err |-> "", proceed |-> TRUE,
                            t |-> [t EXCEPT ![target] = Absent], b |-> c.b]
             ELSE [err |-> "", proceed |-> TRUE, t |-> t, b |-> b]
      [] resolution = "Skip" -> [err |-> "", proceed |-> FALSE, t |-> t, b |-> b]
      [] resolution = "Overwrite" ->
             IF exists(t, target)
             THEN IF ~io.remove_ok
                  THEN [err |-> "Io", proceed |-> FALSE, t |-> t, b |-> b]
                  ELSE IF is_dir(t, target) /\ ~is_symlink(t, target)
                  THEN [err |-> "", proceed |-> TRUE, t |-> remove_dir_all(t, target), b |-> b]
                  ELSE [err |-> "", proceed |-> TRUE,
                        t |-> [t EXCEPT ![target] = Absent], b |-> b]
             ELSE [err |-> "", proceed |-> TRUE, t |-> t, b |-> b]

(***************************************************************************)
(* link_package_auto                                                       *)
(***************************************************************************)
\* the result of one handle_conflict call as link_package_auto sees it
Resolution(h) == IF h.err # "" THEN "Err" ELSE IF h.proceed THEN "Ok(true)" ELSE "Ok(false)"

\* for op in &operations { if Create && op.target.exists() { handle_conflict(..) } }
RECURSIVE resolve_conflicts(_, _, _, _, _, _)
resolve_conflicts(t, b, ops, resolution, io, calls) ==
    IF ops = <<>> THEN [t |-> t, b |-> b, calls |-> calls]
    ELSE LET op == Head(ops) IN
         IF op.op_type = "Create" /\ exists(t, op.target)
         THEN LET h == handle_conflict(t, b, op.target, resolution, io)
              IN  resolve_conflicts(h.t, h.b, Tail(ops), resolution, io,
                      Append(calls, [target |-> op.target, res |-> Resolution(h)]))
         ELSE resolve_conflicts(t, b, Tail(ops), resolution, io, calls)

\* results.iter().filter(|r| r.contains("Created symlink")).count()
created_count(results) == Cardinality({i \in 1..Len(results) : results[i] = "Created symlink"})

\* link_package_auto after the planner has returned its list
auto_apply(t, b, operations, resolution, io) ==
    LET r == resolve_conflicts(t, b, operations, resolution, io, <<>>)
        e == execute_operations(r.t, operations, FALSE)
    IN  [err |-> e.err, created |-> created_count(e.results), t |-> e.t, b |-> r.b,
         calls |-> r.calls, results |-> e.results]

link_package_auto(t, b, ignore_patterns, resolution, io) ==
    LET a == analyze_package(t, ignore_patterns)
    IN  IF a.err # ""
        THEN [err |-> a.err, created |-> 0, t |-> t, b |-> b, calls |-> <<>>,
              results |-> <<>>]
        ELSE auto_apply(t, b, a.ops, resolution, io)

(***************************************************************************)
(* Watchers and reconciliation loop                                        *)
(*                                                                         *)
(* A watched path is the sequence of its components below the watched      *)
(* root.  Every package holds the one file keep.txt; homes[name] is the    *)
(* part of the target tree that the files of package name map to.          *)
(***************************************************************************)
MaxChan == 2    \* events the channel holds before a sender has to wait

None == <<>>

RECURSIVE path_str(_)
path_str(path) ==
    IF path = <<>> THEN <<>> ELSE <<"/">> \o Head(path) \o path_str(Tail(path))

ignored_patterns ==
    <<<<".", "g", "i", "t", "/">>,
      <<".", "D", "S", "_", "S", "t", "o", "r", "e">>,
      <<".", "s", "w", "p">>,
      <<".", "s", "w", "o">>,
      <<"~">>,
      <<".", "t", "m", "p">>,
      <<".", "t", "e", "m", "p">>,
      <<"4", "9", "1", "3">>,
      <<".", "g", "i", "t", "i", "g", "n", "o", "r", "e">>>>

should_ignore_path(path) ==
    \/ \E i \in 1..Len(ignored_patterns) : contains(path_str(path), ignored_patterns[i])
    \/ /\ path # <<>>
       /\ LET name == path[Len(path)]
          IN  \/ starts_with(name, <<".">>) /\ ends_with(name, <<".", "s", "w", "p">>)
              \/ starts_with(name, <<"#">>) /\ ends_with(name, <<"#">>)

is_git_dir_change(path) == path # <<>> /\ Head(path) = NameGit

\* the first component below stow_dir, unless it is hidden
get_package_from_path(path) ==
    IF path = <<>> THEN None
    ELSE IF starts_with(Head(path), <<".">>) THEN None
    ELSE Head(path)

DotfileChanged(path) == [type |-> "DotfileChanged", path |-> path, name |-> None]
NewPackage(name)     == [type |-> "NewPackage", path |-> <<>>, name |-> name]
GitChanged           == [type |-> "GitChanged", path |-> <<>>, name |-> None]
SymlinkDeleted       == [type |-> "SymlinkDeleted", path |-> <<>>, name |-> None]

\* the events the source watcher sends for one path of a debounced batch
source_events(path) ==
    IF should_ignore_path(path) THEN <<>>
    ELSE IF is_git_dir_change(path) THEN <<GitChanged>>
    ELSE IF get_package_from_path(path) # None
         THEN <<DotfileChanged(path), NewPackage(get_package_from_path(path))>>
    ELSE <<>>

\* paths the source watcher can report
SourcePaths ==
    {<<NameA, NameFile>>, <<NameB, NameFile>>, <<NameA, NameTmp>>, <<NameGit>>,
     <<NameGit, NameFile>>, <<NameHidden, NameFile>>}

\* find_packages(&stow_dir).unwrap_or_default(), the names only
package_names(s) == Range(find_packages(s).packages)

AnyOrder(S) == CHOOSE o \in Orders(S) : TRUE

\* one attempt of the loop to link a package
Attempt(name, r) ==
    [pkg |-> name, res |-> IF r.err = "" THEN "Ok" ELSE r.err, created |-> r.created]

\* for pkg_name in packages { if pkg_path.is_dir() { match link_package_auto(..) {..} } }
RECURSIVE relink_loop(_, _, _, _, _)
relink_loop(packages, s, hs, cfg, done) ==
    IF packages = <<>> THEN [homes |-> hs, done |-> done]
    ELSE LET pkg_name == Head(packages) IN
         IF path_is_dir(s, pkg_name)
         THEN LET r == link_package_auto(hs[pkg_name], bak, AnyOrder(load_stow_ignore),
                                         cfg.policy, cfg.io)
              IN  relink_loop(Tail(packages), s, [hs EXCEPT ![pkg_name] = r.t], cfg,
                              Append(done, Attempt(pkg_name, r)))
         ELSE relink_loop(Tail(packages), s, hs, cfg, done)

\* variant: the first failure ends the tick's relinks
relink_all_until_error(packages, s, hs, cfg) ==
    LET first == relink_loop(IF packages = <<>> THEN <<>> ELSE <<Head(packages)>>,
                             s, hs, cfg, <<>>)
    IN  IF first.done # <<>> /\ first.done[1].res # "Ok" THEN first
        ELSE relink_loop(packages, s, hs, cfg, <<>>)

relink_all(packages, s, hs, cfg) == relink_loop(packages, s, hs, cfg, <<>>)

NoSource  == [root |-> "absent", kinds |-> [n \in Names |-> "absent"], order |-> <<>>]
NoHomes   == [n \in PkgNames |-> [id \in TIds |-> Absent]]
NoBackups == [id \in TIds |-> Absent]
NoDaemon  == [pc |-> "off", running |-> FALSE, chan |-> <<>>, known |-> {}, relink |-> {},
              git |-> FALSE, auto_link |-> FALSE, auto_pull |-> FALSE,
              policy |-> "Backup", io |-> IoAllOk,
              pend |-> {}, auto |-> {}, done |-> <<>>, calls |-> <<>>,
              elapsed |-> FALSE, gitseen |-> "none", pull |-> "", pullfor |-> "none"]

(***************************************************************************)
(* Initial states                                                          *)
(***************************************************************************)
NoIgnoreCall == [path |-> <<>>, patterns |-> <<>>, done |-> TRUE, ignored |-> FALSE]
NoPackage    == [entries |-> {}, ignore |-> <<>>, order |-> <<>>]
NoTarget     == [id \in TIds |-> Absent]
NoMarker     == [file |-> "absent", pid |-> 0]
NoProcs      == [p \in 1..MaxProcs |-> [cmd |-> "none", pc |-> "unborn", rd |-> 0,
                                        stale |-> FALSE, res |-> "", rpid |-> 0,
                                        running |-> FALSE]]

IgnoreContents ==
    {<<>>, <<LineStarTmp>>, <<LineConf>>, <<LineComment, LineBlank, LinePadded, LineConf>>}

RootOrders ==
    {<<IgnoreFile, "keep.txt", "ignore.tmp", "conf">>,
     <<"conf", "ignore.tmp", "keep.txt", IgnoreFile>>}

Packages ==
    {[entries |-> e, ignore |-> i, order |-> o] :
        e \in {PIds, PIds \ {"conf/init.lua"}, PIds \ {"conf", "conf/init.lua"},
               PIds \ {IgnoreFile}},
        i \in IgnoreContents, o \in RootOrders}

LeafNodes == {Absent, Link("other"), Link("gone")} \cup {File(c) : c \in Contents}

\* a target tree: nothing sits below a path that is not a directory
Targets ==
    {t \in [TIds -> LeafNodes \cup {Dir} \cup {Link(id) : id \in TIds}] :
        /\ \A id \in TIds \ DirIds : t[id].kind = "link" /\ t[id].val \in TIds
                                       => t[id].val = id
        /\ t["conf"] \in {Absent, Dir} \cup {File(c) : c \in Contents}
        /\ \A id \in TIds \ DirIds : t[id] # Dir
        /\ t["ignore.tmp"].kind = "link" => t["ignore.tmp"].val = "ignore.tmp"
        /\ t["conf"] # Dir => t["conf/init.lua"] = Absent}

InitStow ==
    /\ pkg \in {p \in Packages : IgnoreFile \notin p.entries => p.ignore = <<>>}
    /\ tgt \in Targets
    /\ plan = <<>>
    /\ last = NoCall
    /\ ign = NoIgnoreCall
    /\ marker = NoMarker
    /\ proc = NoProcs
    /\ src = NoSource
    /\ homes = NoHomes
    /\ bak = NoBackups
    /\ dmn = NoDaemon

InitExec ==
    /\ pkg = [entries |-> PIds \ {IgnoreFile}, ignore |-> <<>>, order |-> CHOOSE o \in RootOrders : TRUE]
    /\ tgt \in {t \in Targets : t["ignore.tmp"] = Absent /\ \A id \in TIds : t[id] # Link("gone")}
    /\ plan = <<>>
    /\ last = NoCall
    /\ ign = NoIgnoreCall
    /\ marker = NoMarker
    /\ proc = NoProcs
    /\ src = NoSource
    /\ homes = NoHomes
    /\ bak = NoBackups
    /\ dmn = NoDaemon

InitGlob ==
    /\ \E tmp \in BOOLEAN : \E in \in IgnoreInputs(tmp) :
           ign = [path |-> in.path, patterns |-> in.patterns, done |-> FALSE,
                  ignored |-> FALSE]
    /\ pkg = NoPackage
    /\ tgt = NoTarget
    /\ plan = <<>>
    /\ last = NoCall
    /\ marker = NoMarker
    /\ proc = NoProcs
    /\ src = NoSource
    /\ homes = NoHomes
    /\ bak = NoBackups
    /\ dmn = NoDaemon

\* one call glob_match(text, pattern) with pattern = prefix*suffix
MatchAlphabet == {"a", "b"}

GlobMatch ==
    /\ ~ign.done
    /\ ign' = [ign EXCEPT !.done = TRUE,
                          !.ignored = glob_match(ign.path, Head(ign.patterns))]
    /\ UNCHANGED <<src, homes, bak, dmn, pkg, tgt, plan, last, marker, proc>>

InitMatch ==
    /\ \E text \in Strs(MatchAlphabet, MaxTextLen) :
       \E prefix, suffix \in Strs(MatchAlphabet, MaxPartLen) :
           ign = [path |-> text, patterns |-> <<prefix \o <<"*">> \o suffix>>,
                  done |-> FALSE, ignored |-> FALSE,
                  prefix |-> prefix, suffix |-> suffix]
    /\ pkg = NoPackage
    /\ tgt = NoTarget
    /\ plan = <<>>
    /\ last = NoCall
    /\ marker = NoMarker
    /\ proc = NoProcs
    /\ src = NoSource
    /\ homes = NoHomes
    /\ bak = NoBackups
    /\ dmn = NoDaemon

NextMatch == GlobMatch

SpecMatch == InitMatch /\ [][NextMatch]_vars

InitRun ==
    /\ pkg = [entries |-> PIds \ {IgnoreFile}, ignore |-> <<>>, order |-> CHOOSE o \in RootOrders : TRUE]
    /\ tgt \in {t \in Targets : t["ignore.tmp"] = Absent}
    /\ plan = <<>>
    /\ last = NoCall
    /\ ign = NoIgnoreCall
    /\ marker = NoMarker
    /\ proc = NoProcs
    /\ src = NoSource
    /\ homes = NoHomes
    /\ bak = NoBackups
    /\ dmn = NoDaemon

NextRun == ExecuteOnce

SpecRun == InitRun /\ [][NextRun]_vars

NextStow == AnalyzePackage \/ ExecutePlan \/ LinkSinglePackage
NextExec == ExecuteOperations \/ AnalyzePackage \/ ExecutePlan
NextGlob == IsIgnored

SpecStow == InitStow /\ [][NextStow]_vars
SpecExec == InitExec /\ [][NextExec]_vars
SpecGlob == InitGlob /\ [][NextGlob]_vars

(***************************************************************************)
(* Singleton daemon lifecycle                                              *)
(*                                                                         *)
(* Every process runs one command: run_daemon ("run"),                     *)
(* start_daemon_background ("start_bg"), stop_daemon ("stop") or a status  *)
(* query ("status").  Its pid is its index.  Each system call on the       *)
(* marker file or on another process is one step.                          *)
(***************************************************************************)
Procs == 1..MaxProcs

Alive(p) == p \in Procs /\ proc[p].pc \notin {"unborn", "exited", "crashed"}

\* variant: the liveness probe never succeeds
is_process_running_never(pid) == FALSE

\* kill -0 pid
is_process_running(pid) == Alive(pid)

Unborn == {p \in Procs : proc[p].pc = "unborn"}

NextPid == CHOOSE p \in Unborn : \A q \in Unborn : p <= q

Exit(p, res, rpid) ==
    [proc[p] EXCEPT !.pc = "exited", !.res = res, !.rpid = rpid, !.rd = 0]

\* a command is typed in a shell
Start ==
    /\ Unborn # {}
    /\ \E cmd \in {"run", "start_bg", "stop", "status"} :
           proc' = [proc EXCEPT ![NextPid] = [@ EXCEPT !.cmd = cmd, !.pc = "gdp_read"]]
    /\ UNCHANGED <<src, homes, bak, dmn, ign, pkg, tgt, plan, last, marker>>

\* what the caller of get_daemon_pid does with None
AfterNone(p) ==
    CASE proc[p].cmd = "run"      -> [proc[p] EXCEPT !.pc = "create_pid"]
      [] proc[p].cmd = "start_bg" -> [proc[p] EXCEPT !.pc = "spawn"]
      [] proc[p].cmd = "stop"     -> Exit(p, "NotRunning", 0)
      [] proc[p].cmd = "status"   -> Exit(p, "None", 0)

\* what the caller of get_daemon_pid does with Some(pid)
AfterSome(p, pid) ==
    CASE proc[p].cmd = "run"      -> Exit(p, "AlreadyRunning", pid)
      [] proc[p].cmd = "start_bg" -> Exit(p, "AlreadyRunning", pid)
      [] proc[p].cmd = "stop"     -> [proc[p] EXCEPT !.pc = "kill"]
      [] proc[p].cmd = "status"   -> Exit(p, "Some", pid)

\* get_daemon_pid: pid_path.exists(), read_to_string, parse
GdpRead(p) ==
    /\ proc[p].pc = "gdp_read"
    /\ IF marker.file = "pid"
       THEN proc' = [proc EXCEPT ![p] = [@ EXCEPT !.pc = "gdp_check", !.rd = marker.pid]]
       ELSE proc' = [proc EXCEPT ![p] = AfterNone(p)]
    /\ UNCHANGED <<src, homes, bak, dmn, ign, pkg, tgt, plan, last, marker>>

\* get_daemon_pid: is_process_running(pid)
GdpCheck(p) ==
    /\ proc[p].pc = "gdp_check"
    /\ IF is_process_running(proc[p].rd)
       THEN proc' = [proc EXCEPT ![p] = AfterSome(p, proc[p].rd)]
       ELSE proc' = [proc EXCEPT ![p] = [@ EXCEPT !.pc = "gdp_remove", !.stale = TRUE]]
    /\ UNCHANGED <<src, homes, bak, dmn, ign, pkg, tgt, plan, last, marker>>

\* get_daemon_pid: let _ = fs::remove_file(&pid_path); None
GdpRemove(p) ==
    /\ proc[p].pc = "gdp_remove"
    /\ marker' = NoMarker
    /\ proc' = [proc EXCEPT ![p] = AfterNone(p)]
    /\ UNCHANGED <<src, homes, bak, dmn, ign, pkg, tgt, plan, last>>

\* run_daemon: load_config, auto_sync.enabled, stow_dir.exists(), then
\* write_pid_file: File::create(&pid_path) truncates the file
CreatePidFile(p) ==
    /\ proc[p].pc = "create_pid"
    /\ \E config_ok \in BOOLEAN :
           IF config_ok
           THEN /\ marker' = [file |-> "empty", pid |-> 0]
                /\ proc' = [proc EXCEPT ![p] = [@ EXCEPT !.pc = "write_pid"]]
           ELSE /\ marker' = marker
                /\ proc' = [proc EXCEPT ![p] = Exit(p, "Config", 0)]
    /\ UNCHANGED <<src, homes, bak, dmn, ign, pkg, tgt, plan, last>>

\* variant: the pid read from the old marker is written back
WritePidRead(p) ==
    /\ proc[p].pc = "write_pid"
    /\ marker' = [file |-> "pid", pid |-> proc[p].rd]
    /\ \E log_ok \in BOOLEAN :
           proc' = [proc EXCEPT ![p] = IF log_ok
                                       THEN [@ EXCEPT !.pc = "loop", !.running = TRUE]
                                       ELSE Exit(p, "Io", 0)]
    /\ UNCHANGED <<src, homes, bak, dmn, ign, pkg, tgt, plan, last>>

\* write_pid_file: write!(file, "{}", process::id()), then
\* run_daemon: DaemonState::new, state.open_log()?, signal handlers, watchers
WritePid(p) ==
    /\ proc[p].pc = "write_pid"
    /\ marker' = [file |-> "pid", pid |-> p]
    /\ \E log_ok \in BOOLEAN :
           proc' = [proc EXCEPT ![p] = IF log_ok
                                       THEN [@ EXCEPT !.pc = "loop", !.running = TRUE]
                                       ELSE Exit(p, "Io", 0)]
    /\ UNCHANGED <<src, homes, bak, dmn, ign, pkg, tgt, plan, last>>

\* run_daemon: while running.load() sees the flag cleared; remove_pid_file(); Ok(())
RemovePidFile(p) ==
    /\ proc[p].pc = "loop"
    /\ ~proc[p].running
    /\ marker' = NoMarker
    /\ proc' = [proc EXCEPT ![p] = Exit(p, "Ok", 0)]
    /\ UNCHANGED <<src, homes, bak, dmn, ign, pkg, tgt, plan, last>>

\* SIGTERM reaches process q: the handler clears the flag once the loop runs,
\* before that the default action ends the process
Sigterm(q) ==
    IF proc[q].pc = "loop" THEN [proc[q] EXCEPT !.running = FALSE]
    ELSE [proc[q] EXCEPT !.pc = "crashed"]

\* stop_daemon: kill -TERM pid
KillTerm(p) ==
    /\ proc[p].pc = "kill"
    /\ IF Alive(proc[p].rd)
       THEN proc' = [proc EXCEPT ![p] = [@ EXCEPT !.pc = "stop_remove"],
                                 ![proc[p].rd] = Sigterm(proc[p].rd)]
       ELSE proc' = [proc EXCEPT ![p] = Exit(p, "Io", 0)]
    /\ UNCHANGED <<src, homes, bak, dmn, ign, pkg, tgt, plan, last, marker>>

\* stop_daemon: sleep(500ms); let _ = fs::remove_file(daemon_pid_path()); Ok(())
StopRemove(p) ==
    /\ proc[p].pc = "stop_remove"
    /\ marker' = NoMarker
    /\ proc' = [proc EXCEPT ![p] = Exit(p, "Ok", 0)]
    /\ UNCHANGED <<src, homes, bak, dmn, ign, pkg, tgt, plan, last>>

\* start_daemon_background: spawn `daemon run`, sleep(200ms), Ok(pid)
Spawn(p) ==
    /\ proc[p].pc = "spawn"
    /\ Unborn # {}
    /\ proc' = [proc EXCEPT ![p] = Exit(p, "Ok", NextPid),
                            ![NextPid] = [@ EXCEPT !.cmd = "run", !.pc = "gdp_read"]]
    /\ UNCHANGED <<src, homes, bak, dmn, ign, pkg, tgt, plan, last, marker>>

\* SIGTERM or SIGINT from outside reaches a daemon whose handler is installed
Interrupt(p) ==
    /\ proc[p].cmd = "run"
    /\ proc[p].pc = "loop"
    /\ proc[p].running
    /\ proc' = [proc EXCEPT ![p] = Sigterm(p)]
    /\ UNCHANGED <<src, homes, bak, dmn, ign, pkg, tgt, plan, last, marker>>

\* a daemon that has created its marker is killed from outside (SIGKILL, power loss)
Crash(p) ==
    /\ proc[p].cmd = "run"
    /\ proc[p].pc \in {"write_pid", "loop"}
    /\ proc' = [proc EXCEPT ![p] = [@ EXCEPT !.pc = "crashed"]]
    /\ UNCHANGED <<src, homes, bak, dmn, ign, pkg, tgt, plan, last, marker>>

InitPid ==
    /\ marker = NoMarker
    /\ proc = NoProcs
    /\ pkg = NoPackage
    /\ tgt = NoTarget
    /\ plan = <<>>
    /\ last = NoCall
    /\ ign = NoIgnoreCall
    /\ src = NoSource
    /\ homes = NoHomes
    /\ bak = NoBackups
    /\ dmn = NoDaemon

NextPidStep ==
    \/ Start
    \/ \E p \in Procs :
        \/ GdpRead(p) \/ GdpCheck(p) \/ GdpRemove(p)
        \/ CreatePidFile(p) \/ WritePid(p) \/ RemovePidFile(p)
        \/ KillTerm(p) \/ StopRemove(p) \/ Spawn(p)
        \/ Interrupt(p) \/ Crash(p)

SpecPid == InitPid /\ [][NextPidStep]_vars

(***************************************************************************)
(* Package discovery, conflict resolution and automatic link: the calls    *)
(***************************************************************************)
SourceOrders == {<<NameA, NameB, NameHidden>>, <<NameHidden, NameB, NameA>>}

\* a source root that is missing or a plain file has no entries
Sources ==
    {[root |-> "dir", kinds |-> k, order |-> o] :
        k \in [Names -> {"absent", "dir", "file", "dirlink"}], o \in SourceOrders}
    \cup {[root |-> r, kinds |-> [n \in Names |-> "absent"], order |-> o] :
             r \in {"absent", "file"}, o \in SourceOrders}

\* let packages = find_packages(&stow_dir)
FindPackages ==
    LET r == find_packages(src)
    IN  /\ last' = Call("find", FALSE, IF r.err = "" THEN "Ok" ELSE r.err, "", r.packages)
        /\ UNCHANGED <<ign, pkg, tgt, plan, marker, proc, src, homes, bak, dmn>>

OldBackups == [id \in TIds |-> File("c0")]

\* handle_conflict(&target, resolution) on any target path
HandleConflict ==
    \E target \in TIds :
        LET h == handle_conflict(tgt, bak, target, dmn.policy, dmn.io)
        IN  /\ tgt' = h.t
            /\ bak' = h.b
            /\ last' = Call("resolve", FALSE, Resolution(h), target, <<>>)
            /\ UNCHANGED <<ign, pkg, plan, marker, proc, src, homes, dmn>>

\* link_package_auto: let operations = analyze_package(package_path, target_dir)?
AutoScan ==
    /\ last.op \in {"none", "auto_scan", "auto_apply"}
    /\ \E ignore_patterns \in Orders(load_stow_ignore) :
        LET a == analyze_package(tgt, ignore_patterns)
        IN  /\ plan' = a.ops
            /\ last' = Call("auto_scan", FALSE, IF a.err = "" THEN "Ok" ELSE a.err, a.at, <<>>)
            /\ UNCHANGED <<ign, pkg, tgt, marker, proc, src, homes, bak, dmn>>

\* another program puts something at a free target path after the scan
ForeignWrite ==
    /\ last.op = "auto_scan" /\ last.res = "Ok"
    /\ \E id \in TIds, node \in {File("c1"), Link("other"), Link("gone")} :
        /\ reachable(tgt, id) /\ tgt[id] = Absent
        /\ id \in DirIds => node.kind = "file"
        /\ tgt' = [tgt EXCEPT ![id] = node]
        /\ last' = Call("foreign_write", FALSE, "Ok", id, <<>>)
        /\ UNCHANGED <<ign, pkg, plan, marker, proc, src, homes, bak, dmn>>

\* link_package_auto: the conflict loop, execute_operations, the count
AutoApply ==
    /\ \/ last.op = "auto_scan" /\ last.res = "Ok"
       \/ last.op = "foreign_write"
    /\ LET r == auto_apply(tgt, bak, plan, dmn.policy, dmn.io)
       IN  /\ tgt' = r.t
           /\ bak' = r.b
           /\ dmn' = [dmn EXCEPT !.calls = r.calls]
           /\ last' = Call("auto_apply", FALSE, IF r.err = "" THEN "Ok" ELSE r.err, "",
                           r.results)
           /\ UNCHANGED <<ign, pkg, plan, marker, proc, src, homes>>

Configs == {[NoDaemon EXCEPT !.policy = p, !.io = io] : p \in Policies, io \in IoModes}

InitFind ==
    /\ src \in Sources
    /\ pkg = NoPackage
    /\ tgt = NoTarget
    /\ plan = <<>>
    /\ last = NoCall
    /\ ign = NoIgnoreCall
    /\ marker = NoMarker
    /\ proc = NoProcs
    /\ homes = NoHomes
    /\ bak = NoBackups
    /\ dmn = NoDaemon

InitResolve ==
    /\ pkg = [entries |-> PIds \ {IgnoreFile}, ignore |-> <<>>,
              order |-> CHOOSE o \in RootOrders : TRUE]
    /\ tgt \in Targets
    /\ bak \in {NoBackups, OldBackups}
    /\ dmn \in Configs
    /\ plan = <<>>
    /\ last = NoCall
    /\ ign = NoIgnoreCall
    /\ marker = NoMarker
    /\ proc = NoProcs
    /\ src = NoSource
    /\ homes = NoHomes

InitAuto ==
    /\ pkg \in {p \in Packages : /\ IgnoreFile \notin p.entries => p.ignore = <<>>
                                 /\ p.ignore \in {<<>>, <<LineStarTmp>>}
                                 /\ p.order = CHOOSE o \in RootOrders : TRUE}
    /\ tgt \in {t \in Targets : t["ignore.tmp"] = Absent}
    /\ bak \in {NoBackups, OldBackups}
    /\ dmn \in Configs
    /\ plan = <<>>
    /\ last = NoCall
    /\ ign = NoIgnoreCall
    /\ marker = NoMarker
    /\ proc = NoProcs
    /\ src = NoSource
    /\ homes = NoHomes

NextFind    == FindPackages
NextResolve == HandleConflict
NextAuto    == AutoScan \/ ForeignWrite \/ AutoApply

SpecFind    == InitFind /\ [][NextFind]_vars
SpecResolve == InitResolve /\ [][NextResolve]_vars
SpecAuto    == InitAuto /\ [][NextAuto]_vars

(***************************************************************************)
(* Reconciliation loop: the daemon between "Daemon started successfully"   *)
(* and its return, the two watcher threads and the world around them       *)
(***************************************************************************)
OneFilePackage ==
    [entries |-> {"keep.txt"}, ignore |-> <<>>, order |-> CHOOSE o \in RootOrders : TRUE]

LoopSources ==
    {[root |-> "dir", kinds |-> k, order |-> CHOOSE o \in SourceOrders : TRUE] :
        k \in {kk \in [Names -> {"absent", "dir"}] :
                    kk[NameHidden] = "dir" /\ kk[NameB] = "dir"}}

LoopTrees ==
    {[NoTarget EXCEPT !["keep.txt"] = n] :
        n \in {Absent, File("c1"), Link("gone")}}

\* variant: the loop condition is never looked at again
Leave_never(d) == d

\* while running.load(Ordering::SeqCst): checked after the wake-up was handled;
\* after the loop: remove_pid_file(), Ok(())
Leave(d) == IF d.running THEN d ELSE [d EXCEPT !.pc = "stopped"]

\* dmn.done, dmn.pull and dmn.pullfor tell what the loop did in the step that led
\* to the current state; they are empty when that step was not a step of the loop
Quiet == [dmn EXCEPT !.done = <<>>, !.pull = "", !.pullfor = "none"]

\* Some(event) = rx.recv(): the event is taken off the channel; the sleep of this
\* wait is dropped and the next wait starts a new one
Received == [Quiet EXCEPT !.chan = Tail(@), !.elapsed = FALSE]

\* variant: the registry holds the most recent new package only
known_replace(known, name) == {name}

\* state.known_packages.insert(name.clone())
known_insert(known, name) == known \cup {name}

\* Some(event) = rx.recv() => match event { .. }
HandleEvent ==
    /\ dmn.pc = "loop"
    /\ dmn.chan # <<>>
    /\ LET event == Head(dmn.chan)
           d0    == Received
       IN  CASE event.type = "DotfileChanged" ->
                    LET p == get_package_from_path(event.path)
                    IN  /\ dmn' = Leave(IF p # None
                                        THEN [d0 EXCEPT !.relink = @ \cup {p},
                                                        !.pend = @ \cup {p}]
                                        ELSE d0)
                        /\ homes' = homes
             [] event.type = "NewPackage" ->
                    IF event.name \notin dmn.known
                    THEN IF dmn.auto_link /\ path_is_dir(src, event.name)
                         THEN LET r == link_package_auto(homes[event.name], bak,
                                           AnyOrder(load_stow_ignore), dmn.policy, dmn.io)
                              IN  /\ dmn' = Leave([d0 EXCEPT
                                                !.known = known_insert(@, event.name),
                                                !.pend = @ \cup {event.name},
                                                !.auto = @ \cup {event.name},
                                                !.done = <<Attempt(event.name, r)>>])
                                  /\ homes' = [homes EXCEPT ![event.name] = r.t]
                         ELSE /\ dmn' = Leave([d0 EXCEPT !.known = known_insert(@, event.name),
                                                         !.pend = @ \cup {event.name}])
                              /\ homes' = homes
                    ELSE /\ dmn' = Leave([d0 EXCEPT !.relink = @ \cup {event.name},
                                                    !.pend = @ \cup {event.name}])
                         /\ homes' = homes
             [] event.type = "GitChanged" ->
                    /\ dmn' = Leave(IF dmn.auto_pull /\ ~dmn.git
                                    THEN [d0 EXCEPT !.git = TRUE, !.gitseen = "one"]
                                    ELSE [d0 EXCEPT !.gitseen = IF @ = "none" THEN "one"
                                                                ELSE "many"])
                    /\ homes' = homes
             [] event.type = "SymlinkDeleted" ->
                    /\ dmn' = Leave([d0 EXCEPT !.relink = @ \cup package_names(src)])
                    /\ homes' = homes
    /\ marker' = IF dmn.running THEN marker ELSE NoMarker
    /\ UNCHANGED <<ign, pkg, tgt, plan, last, proc, src, bak>>

\* git_pull(&stow_dir): Ok(true), Ok(false) or Err(..)
PullOutcomes == {"changed", "same", "failed"}

\* the source root after the pull: new content can bring a package directory
pulled_source(s, pull) ==
    IF pull = "changed" THEN {s, [s EXCEPT !.kinds[NameA] = "dir"]} ELSE {s}

\* variant: every pull that ran marks all packages
marked_by_any_pull(pull, s, relink) ==
    IF pull # "" THEN relink \cup package_names(s) ELSE relink

\* Ok(true) => for pkg in find_packages(&stow_dir) { packages_to_relink.insert(pkg.name) }
marked_by_pull(pull, s, relink) ==
    IF pull = "changed" THEN relink \cup package_names(s) ELSE relink

\* variant: a pull at every tick
pull_outcomes_always(pending) == PullOutcomes

\* if git_pull_pending { git_pull_pending = false; match git_pull(&stow_dir) { .. } }
pull_outcomes(pending) == IF pending THEN PullOutcomes ELSE {""}

\* the packages whose attempt ended in an error
failed_names(done) == {done[i].pkg : i \in {j \in DOMAIN done : done[j].res # "Ok"}}

\* variant: a package whose relink failed is kept for the next tick
tick_end_retry(d, done, pull) ==
    [d EXCEPT !.elapsed = FALSE, !.git = FALSE, !.relink = failed_names(done),
              !.pend = {}, !.auto = {}, !.done = done,
              !.gitseen = "none", !.pull = pull, !.pullfor = d.gitseen]

\* the state of the loop when the tick arm is left: git_pull_pending = false,
\* packages_to_relink.drain()
tick_end(d, done, pull) ==
    [d EXCEPT !.elapsed = FALSE, !.git = FALSE, !.relink = {},
              !.pend = {}, !.auto = {}, !.done = done,
              !.gitseen = "none", !.pull = pull, !.pullfor = d.gitseen]

\* the tick arm of select! can be taken: the sleep of this wait has ended
TickReady == dmn.pc = "loop" /\ dmn.elapsed

\* _ = tokio::time::sleep(Duration::from_secs(2)) => { .. }
Tick ==
    /\ TickReady
    /\ \E pull \in pull_outcomes(dmn.git) :
        \E s \in pulled_source(src, pull) :
            \E packages \in Orders(marked_by_pull(pull, s, dmn.relink)) :
                LET r == relink_all(packages, s, homes, dmn)
                IN  /\ src' = s
                    /\ homes' = r.homes
                    /\ dmn' = Leave(tick_end(dmn, r.done, pull))
    /\ marker' = IF dmn.running THEN marker ELSE NoMarker
    /\ UNCHANGED <<ign, pkg, tgt, plan, last, proc, bak>>

\* the sleep of the current wait ends: the loop has waited two seconds and has
\* received no event since the wait began
Elapse ==
    /\ dmn.pc = "loop"
    /\ dmn.chan = <<>>
    /\ ~dmn.elapsed
    /\ dmn' = [Quiet EXCEPT !.elapsed = TRUE]
    /\ UNCHANGED <<ign, pkg, tgt, plan, last, marker, proc, src, homes, bak>>

\* the signal task: sigterm.recv() or sigint.recv(), then running_signal.store(false)
Terminate ==
    /\ dmn.pc = "loop"
    /\ dmn.running
    /\ dmn' = [Quiet EXCEPT !.running = FALSE]
    /\ UNCHANGED <<ign, pkg, tgt, plan, last, marker, proc, src, homes, bak>>

\* the source watcher thread: one path of a debounced batch
WatchSource ==
    /\ dmn.pc = "loop"
    /\ \E path \in SourcePaths :
        /\ Len(dmn.chan) + Len(source_events(path)) <= MaxChan
        /\ dmn' = [Quiet EXCEPT !.chan = @ \o source_events(path)]
    /\ UNCHANGED <<ign, pkg, tgt, plan, last, marker, proc, src, homes, bak>>

\* a package directory is created or removed in the source root
SourceTouched ==
    /\ dmn.pc = "loop"
    /\ \E n \in {NameA} :
        src' = [src EXCEPT !.kinds[n] = IF @ = "absent" THEN "dir" ELSE "absent"]
    /\ dmn' = Quiet
    /\ UNCHANGED <<ign, pkg, tgt, plan, last, marker, proc, homes, bak>>

\* a link of the target directory is removed; the target watcher thread sees a
\* Remove event for a path that does not exist any more and is not hidden
TargetRemoved ==
    /\ dmn.pc = "loop"
    /\ Len(dmn.chan) < MaxChan
    /\ \E n \in PkgNames :
        /\ homes[n]["keep.txt"].kind = "link"
        /\ homes' = [homes EXCEPT ![n]["keep.txt"] = Absent]
    /\ dmn' = [Quiet EXCEPT !.chan = Append(@, SymlinkDeleted)]
    /\ UNCHANGED <<ign, pkg, tgt, plan, last, marker, proc, src, bak>>

InitLoop ==
    /\ src \in LoopSources
    /\ homes \in {h \in [PkgNames -> LoopTrees] : h[NameB] = NoTarget}
    /\ pkg = OneFilePackage
    /\ \E auto_link, auto_pull \in BOOLEAN :
           /\ auto_link = auto_pull      \* the defaults, or both switched off
           /\ dmn = [NoDaemon EXCEPT !.pc = "loop", !.running = TRUE,
                                  !.known = package_names(src),
                                  !.auto_link = auto_link, !.auto_pull = auto_pull]
    /\ marker = [file |-> "pid", pid |-> 1]
    /\ bak = NoBackups
    /\ tgt = NoTarget
    /\ plan = <<>>
    /\ last = NoCall
    /\ ign = NoIgnoreCall
    /\ proc = NoProcs

NextLoop ==
    \/ HandleEvent \/ Tick \/ Elapse \/ Terminate
    \/ WatchSource \/ SourceTouched \/ TargetRemoved

SpecLoop == InitLoop /\ [][NextLoop]_vars

\* The loop task is scheduled: an event on the channel is received, a sleep that
\* nothing drops ends after two seconds, and a wait whose sleep has ended runs
\* the tick arm unless an event is received first.  The watchers, the signal and
\* the other programs are not obliged to do anything.
InitFair ==
    /\ InitLoop
    /\ src.kinds[NameA] = "dir"
    /\ homes = NoHomes
    /\ dmn.auto_pull

\* WF_vars(Tick) with ENABLED <<Tick>>_vars written out as TickReady: every
\* wake-up of the tick arm changes dmn.elapsed
Fairness ==
    /\ WF_vars(HandleEvent)
    /\ WF_vars(Elapse)
    /\ ([]<>(~TickReady) \/ []<><<Tick>>_vars)

SpecFair == InitFair /\ [][NextLoop]_vars /\ Fairness

\* The daemon is started with auto_link_new_packages = false, nothing linked yet,
\* and before the package directory a exists: state.known_packages is filled
\* from find_packages(&stow_dir) at startup and does not hold a
InitNew ==
    /\ InitLoop
    /\ src.kinds[NameA] = "absent"
    /\ homes = NoHomes
    /\ ~dmn.auto_link

SpecNew == InitNew /\ [][NextLoop]_vars

(***************************************************************************)
(* Vocabulary of the properties                                            *)
(***************************************************************************)
\* some rule of the ignore file covers the entry
Ignored(id) == \E r \in load_stow_ignore : pattern_hits(RelStr(id), r)

\* the entries the walk looks at: no ignore file, nothing below an ignored directory
Walked(id) ==
    /\ id \in pkg.entries
    /\ id # IgnoreFile
    /\ Parent(id) # "root" => (Parent(id) \in pkg.entries /\ ~Ignored(Parent(id)))

PackageFile(id) == id \in pkg.entries /\ id \notin DirIds /\ id # IgnoreFile

PlainFileAt(id) == reachable(tgt, id) /\ tgt[id].kind = "file"

OpsFor(ops, id) == {i \in 1..Len(ops) : ops[i].source = id}

PlannerCalled == last.op \in {"analyze", "link"}

\* plain files of the target tree stay what they are in this step
PlainFilesKept == \A id \in TIds : tgt[id].kind = "file" => tgt'[id] = tgt[id]

(***************************************************************************)
(* C4 (as stated): whenever the target path of a package file holds a      *)
(* plain file, analyze fails with ConflictDetected, and no step replaces a *)
(* plain file of the target tree.                                          *)
(***************************************************************************)
C4_AnyPackageFileConflicts ==
    [][/\ (PlannerCalled /\ \E id \in TIds : PackageFile(id) /\ PlainFileAt(id))'
          => last'.res = "ConflictDetected"
       /\ PlainFilesKept]_vars

(***************************************************************************)
(* C4 (amended): whenever the target path of a package file that the walk  *)
(* classifies (not ignored, not below an ignored directory) holds a plain  *)
(* file, analyze and one-shot link fail with ConflictDetected, and no      *)
(* planner, executor or link step replaces a plain file of the target tree.*)
(***************************************************************************)
C4_PlainFileConflict ==
    [][/\ (PlannerCalled /\ \E id \in TIds :
              PackageFile(id) /\ Walked(id) /\ ~Ignored(id) /\ PlainFileAt(id))'
          => last'.res = "ConflictDetected"
       /\ PlainFilesKept]_vars

C4_Witness ==
    /\ last.op = "link" /\ ~last.dry
    /\ last.res = "ConflictDetected"
    /\ last.prev = "link"
    /\ \E id \in TIds : PackageFile(id) /\ Walked(id) /\ ~Ignored(id) /\ PlainFileAt(id)
    /\ \E id \in TIds : PackageFile(id) /\ Ignored(id) /\ PlainFileAt(id)

(***************************************************************************)
(* C5: a dry run of the executor, on the planner's list or on any list of  *)
(* Create, Remove and Skip operations, succeeds and leaves the target tree *)
(* and the package tree as they were.                                      *)
(***************************************************************************)
C5_DryRunPure ==
    [][(last'.op \in {"execute", "execute_list"} /\ last'.dry)
          => (tgt' = tgt /\ pkg' = pkg /\ last'.res = "Ok")]_vars

C5_Witness ==
    /\ last.op = "execute_list" /\ last.dry
    /\ last.out = <<"[DRY-RUN] Would create symlink", "[DRY-RUN] Would remove symlink">>
    /\ tgt["keep.txt"] = Absent
    /\ tgt["conf/init.lua"].kind = "link"

(***************************************************************************)
(* C6: when the executor has applied the planner's list for real and       *)
(* succeeded, the next analyze succeeds, returns no Create, and returns    *)
(* Skip(already linked) for every operation that was Create.               *)
(***************************************************************************)
C6_RelinkIsSkip ==
    [][(last.op = "execute" /\ ~last.dry /\ last.res = "Ok" /\ last'.op = "analyze")
          => /\ last'.res = "Ok"
             /\ \A j \in 1..Len(plan') : plan'[j].op_type # "Create"
             /\ \A i \in 1..Len(plan) : plan[i].op_type = "Create"
                    => \E j \in 1..Len(plan') :
                           plan'[j] = [plan[i] EXCEPT !.op_type = SkipLinked]]_vars

C6_Witness ==
    /\ last.op = "analyze" /\ last.res = "Ok"
    /\ last.prev = "applied"
    /\ \E j \in 1..Len(plan) : plan[j].source = "conf/init.lua" /\ plan[j].op_type = SkipLinked
    /\ \E j \in 1..Len(plan) : plan[j].op_type = SkipIgnored

(***************************************************************************)
(* C7: two analyze calls in a row (nothing changed in between) return the  *)
(* same result, whatever order the set of ignore rules is iterated in:     *)
(* the same operations in the same order, or the same error at the same    *)
(* path.  The order of read_dir is part of the file system state.          *)
(***************************************************************************)
C7_AnalyzeDeterministic ==
    [][(last.op = "analyze" /\ last'.op = "analyze")
          => (plan' = plan /\ last'.res = last.res /\ last'.at = last.at)]_vars

C7_Witness ==
    /\ last.op = "analyze" /\ last.prev = "analyze"
    /\ Cardinality(load_stow_ignore) = 2
    /\ \E j \in 1..Len(plan) : plan[j].op_type = SkipIgnored
    /\ \E j \in 1..Len(plan) : plan[j].op_type = "Create"

(***************************************************************************)
(* C10: with nothing in the target tree, analyze succeeds and returns      *)
(* exactly one operation for every walked entry that is a file or is       *)
(* ignored (Skip(ignored) if ignored, Create otherwise) and no operation   *)
(* for the ignore file, for a directory that is not ignored, or for        *)
(* anything below an ignored directory.                                    *)
(***************************************************************************)
C10_EmptyTargetPlan ==
    (last.op = "analyze" /\ \A id \in TIds : tgt[id] = Absent)
        => /\ last.res = "Ok"
           /\ \A id \in PIds :
                 IF Walked(id) /\ Ignored(id)
                 THEN \E i \in 1..Len(plan) :
                          /\ OpsFor(plan, id) = {i}
                          /\ plan[i] = [source |-> id, target |-> id, op_type |-> SkipIgnored]
                 ELSE IF Walked(id) /\ id \notin DirIds
                 THEN \E i \in 1..Len(plan) :
                          /\ OpsFor(plan, id) = {i}
                          /\ plan[i] = [source |-> id, target |-> id, op_type |-> "Create"]
                 ELSE OpsFor(plan, id) = {}

C10_Witness ==
    /\ last.op = "analyze" /\ \A id \in TIds : tgt[id] = Absent
    /\ IgnoreFile \in pkg.entries
    /\ Len(plan) = 3
    /\ \E i \in 1..3 : plan[i] = [source |-> "keep.txt", target |-> "keep.txt",
                                  op_type |-> "Create"]
    /\ \E i \in 1..3 : plan[i] = [source |-> "ignore.tmp", target |-> "ignore.tmp",
                                  op_type |-> SkipIgnored]
    /\ \E i \in 1..3 : plan[i] = [source |-> "conf/init.lua", target |-> "conf/init.lua",
                                  op_type |-> "Create"]

(***************************************************************************)
(* C8 (as stated): a literal rule ignores a path only when the final       *)
(* segment of the path equals the rule.                                    *)
(***************************************************************************)
LiteralCall == ign.done /\ ~has_star(ign.patterns[1])

C8_LiteralOnlyExactName ==
    (LiteralCall /\ ign.ignored) => file_name(ign.path) = ign.patterns[1]

(***************************************************************************)
(* C8 (amended): a literal rule ignores a path exactly when the string     *)
(* form of the path contains the rule as a substring (a final segment      *)
(* equal to the rule is one such case).                                    *)
(***************************************************************************)
C8_LiteralIsSubstring ==
    LiteralCall => (ign.ignored <=> contains(ign.path, ign.patterns[1]))

C8_Witness ==
    /\ LiteralCall /\ ign.ignored
    /\ ign.patterns = << <<"a", ".">> >>
    /\ ign.path = <<"b", "/", "a", ".", "b">>

(***************************************************************************)
(* C9: with the single rule *.tmp a path is ignored exactly when its       *)
(* string form ends in .tmp, in the root or in a subdirectory.             *)
(***************************************************************************)
C9_StarTmp ==
    (ign.done /\ ign.patterns = <<StarTmp>>)
        => (ign.ignored <=> ends_with(ign.path, DotTmp))

C9_Witness ==
    /\ ign.done /\ ign.patterns = <<StarTmp>> /\ ign.ignored
    /\ ign.path = <<"x", "/", "x", ".", "t", "m", "p">>

(***************************************************************************)
(* C1: at most one daemon process is in the reconciliation loop.           *)
(***************************************************************************)
InLoop == {p \in Procs : proc[p].cmd = "run" /\ proc[p].pc = "loop"}

C1_AtMostOneDaemon == Cardinality(InLoop) <= 1

(***************************************************************************)
(* C2: a daemon start (run_daemon or start_daemon_background) whose        *)
(* liveness probe finds the process named by the marker alive ends with    *)
(* AlreadyRunning carrying that pid, leaves the marker file as it is and   *)
(* starts nothing: the process has exited and no process was spawned.      *)
(***************************************************************************)
Starter(p) == proc[p].cmd \in {"run", "start_bg"}

C2_AlreadyRunning ==
    [][\A p \in Procs :
          /\ (GdpCheck(p) /\ Starter(p) /\ Alive(proc[p].rd))
                => /\ proc'[p].pc = "exited"
                   /\ proc'[p].res = "AlreadyRunning"
                   /\ proc'[p].rpid = proc[p].rd
                   /\ marker' = marker
                   /\ \A q \in Procs \ {p} : proc'[q] = proc[q]
          /\ proc[p].res = "AlreadyRunning" => proc'[p] = proc[p]]_vars

C2_Witness ==
    \E p, q \in Procs :
        /\ proc[p].cmd = "start_bg" /\ proc[p].res = "AlreadyRunning" /\ proc[p].rpid = q
        /\ proc[q].pc = "loop"
        /\ marker = [file |-> "pid", pid |-> q]
        /\ Unborn # {}
        /\ \A r \in Procs \ {p, q} : proc[r].pc = "unborn"

(***************************************************************************)
(* C3: a process whose liveness probe found the pid of the                 *)
(* marker dead gets None from get_daemon_pid (a status query reports no    *)
(* daemon, a start is not rejected with AlreadyRunning); a start that then *)
(* passes its configuration checks goes on to write_pid_file, and          *)
(* write_pid_file leaves the marker holding the pid of the writer.         *)
(***************************************************************************)
C3_StaleIgnored ==
    [][\A p \in Procs :
          /\ proc'[p].stale => proc'[p].res \notin {"AlreadyRunning", "Some"}
          /\ (proc'[p].stale /\ proc'[p].cmd = "status" /\ proc'[p].pc = "exited")
                => proc'[p].res = "None"
          /\ (proc[p].stale /\ GdpRemove(p))
                => (marker' = NoMarker /\ (proc[p].cmd = "run" => proc'[p].pc = "create_pid"))
          /\ (proc[p].stale /\ CreatePidFile(p))
                => (proc'[p].pc = "write_pid" \/ proc'[p].res = "Config")
          /\ (proc[p].stale /\ WritePid(p)) => marker' = [file |-> "pid", pid |-> p]]_vars

C3_Witness ==
    \E p, q \in Procs :
        /\ proc[q].cmd = "run" /\ proc[q].pc = "crashed"
        /\ proc[p].cmd = "run" /\ proc[p].stale /\ proc[p].rd = q
        /\ proc[p].pc = "loop" /\ proc[p].running
        /\ marker = [file |-> "pid", pid |-> p]

(***************************************************************************)
(* C11: whenever analyze has run and some package file that the walk       *)
(* classifies has a symbolic link at its target whose value is not the     *)
(* source path (a link to another place, or a dangling link), analyze has  *)
(* failed with ConflictDetected and has returned no Create for that file.  *)
(***************************************************************************)
ForeignLinkAt(id) == is_symlink(tgt, id) /\ tgt[id].val # id

C11_ForeignLinkConflicts ==
    (last.op = "analyze" /\ \E id \in TIds :
         PackageFile(id) /\ Walked(id) /\ ~Ignored(id) /\ ForeignLinkAt(id))
        => /\ last.res = "ConflictDetected"
           /\ \A i \in 1..Len(plan) : plan[i].op_type # "Create"

(***************************************************************************)
(* C12: a real run of the executor on the single operation Remove removes  *)
(* the target and reports "Removed symlink" exactly when the target is a   *)
(* symbolic link at that moment; a target that is a plain file, a          *)
(* directory or absent stays as it is and "Skipped non-symlink" is         *)
(* reported.  And no run of the executor, on any operation list, changes   *)
(* or removes a plain file or a directory of the target tree.              *)
(***************************************************************************)
RemoveOps == {op \in AnyOps : op.op_type = "Remove"}

ExecutorStep == last'.op \in {"execute", "execute_list"}

C12_RemoveOnlySymlink ==
    [][/\ \A op \in RemoveOps :
              (last'.op = "execute_list" /\ ~last'.dry /\ ExecuteList(<<op>>, FALSE))
                  => /\ last'.res = "Ok"
                     /\ IF reachable(tgt, op.target) /\ tgt[op.target].kind = "link"
                        THEN /\ tgt' = [tgt EXCEPT ![op.target] = Absent]
                             /\ last'.out = <<"Removed symlink">>
                        ELSE /\ tgt' = tgt
                             /\ last'.out = <<"Skipped non-symlink">>
       /\ ExecutorStep
              => \A id \in TIds : tgt[id].kind \in {"file", "dir"} => tgt'[id] = tgt[id]]_vars

C12_Witness ==
    /\ last.op = "execute_list" /\ ~last.dry /\ last.res = "Ok"
    /\ last.out = <<"Skipped non-symlink", "Removed symlink">>
    /\ tgt["conf"] = Dir
    /\ tgt["conf/init.lua"] = Absent
    /\ tgt["keep.txt"].kind = "file"

(***************************************************************************)
(* C16: when a run_daemon process that has got as far as write_pid_file    *)
(* leaves run_daemon (it returns Ok after the loop, or returns an error),  *)
(* the marker file does not hold its pid any more.                         *)
(***************************************************************************)
C16_MarkerRemovedOnExit ==
    [][\A p \in Procs :
          (/\ proc[p].cmd = "run"
           /\ proc[p].pc \in {"write_pid", "loop"}
           /\ proc'[p].pc = "exited")
              => ~(marker'.file = "pid" /\ marker'.pid = p)]_vars

(***************************************************************************)
(* C15: when link_package_auto has scanned a package while the target of   *)
(* a package file that the walk classifies holds a plain file or a         *)
(* symbolic link to another existing place, the scan has not failed with   *)
(* ConflictDetected (the conflict is left to the conflict resolver).       *)
(***************************************************************************)
ForeignAt(id) ==
    \/ PlainFileAt(id)
    \/ is_symlink(tgt, id) /\ tgt[id].val # id /\ exists(tgt, id)

C15_ConflictRouted ==
    (last.op = "auto_scan" /\ \E id \in TIds :
         PackageFile(id) /\ Walked(id) /\ ~Ignored(id) /\ ForeignAt(id))
        => last.res # "ConflictDetected"

(***************************************************************************)
(* C17: handle_conflict with the Backup policy, on a target that exists    *)
(* and is not a symbolic link: when the target is a regular file and no    *)
(* file system call fails, the file is copied to target + ".backup", the   *)
(* original is removed and the result is Ok(true); otherwise (the copy or  *)
(* the removal fails; a directory cannot be copied) the call fails.  In    *)
(* every case the original is gone only if the backup holds its content,   *)
(* and no other target path changes.                                       *)
(***************************************************************************)
C17_BackupBeforeDelete ==
    [][(/\ last'.op = "resolve" /\ dmn.policy = "Backup"
        /\ exists(tgt, last'.at) /\ ~is_symlink(tgt, last'.at))
          => /\ IF tgt[last'.at].kind = "file" /\ dmn.io = IoAllOk
                THEN /\ last'.res = "Ok(true)"
                     /\ bak'[last'.at] = tgt[last'.at]
                     /\ tgt'[last'.at] = Absent
                ELSE last'.res = "Err"
             /\ tgt'[last'.at] # tgt[last'.at] => bak'[last'.at] = tgt[last'.at]
             /\ \A id \in TIds \ {last'.at} : tgt'[id] = tgt[id]]_vars

C17_Witness ==
    /\ last.op = "resolve" /\ dmn.policy = "Backup" /\ last.res = "Ok(true)"
    /\ last.at = "conf/init.lua"
    /\ tgt["conf/init.lua"] = Absent
    /\ bak["conf/init.lua"] = File("c1")
    /\ bak["keep.txt"] = File("c0")

(***************************************************************************)
(* C18: with the Skip policy handle_conflict returns Ok(false) and changes *)
(* nothing, whatever the target; and a link_package_auto run under Skip    *)
(* gets Ok(false) from every resolver call, leaves every target path that  *)
(* held something before the run exactly as it was, and writes no backup.  *)
(***************************************************************************)
SkipChangesNothing ==
    \A target \in TIds, io \in IoModes :
        handle_conflict(tgt, bak, target, "Skip", io)
            = [err |-> "", proceed |-> FALSE, t |-> tgt, b |-> bak]

C18_SkipUntouched ==
    [][/\ SkipChangesNothing
       /\ (last'.op = "auto_apply" /\ dmn.policy = "Skip")
             => /\ \A i \in 1..Len(dmn'.calls) : dmn'.calls[i].res = "Ok(false)"
                /\ \A id \in TIds : tgt[id] # Absent => tgt'[id] = tgt[id]
                /\ bak' = bak]_vars

C18_Witness ==
    /\ last.op = "auto_apply" /\ dmn.policy = "Skip"
    /\ last.prev = "foreign_write"
    /\ dmn.calls = <<[target |-> "keep.txt", res |-> "Ok(false)"]>>
    /\ tgt["keep.txt"] = File("c1")
    /\ last.res = "Io"

(***************************************************************************)
(* C19: when handle_conflict with the Overwrite policy has returned        *)
(* Ok(true), nothing is left at the target path or below it.               *)
(***************************************************************************)
C19_OverwriteClears ==
    (last.op = "resolve" /\ dmn.policy = "Overwrite" /\ last.res = "Ok(true)")
        => /\ tgt[last.at] = Absent
           /\ \A c \in TIds : Parent(c) = last.at => tgt[c] = Absent

(***************************************************************************)
(* C20: when the source root is a directory, find_packages succeeds and    *)
(* returns, once each, exactly the names of its immediate entries that are *)
(* directories (Path::is_dir: a directory, or a symbolic link to one) and  *)
(* do not start with "."; when the source root is missing or is not a      *)
(* directory it fails with InvalidPath.                                    *)
(***************************************************************************)
C20_FindPackages ==
    last.op = "find"
        => IF src.root = "dir"
           THEN /\ last.res = "Ok"
                /\ Range(last.out) = {n \in Names : /\ src.kinds[n] \in {"dir", "dirlink"}
                                                    /\ Head(n) # "."}
                /\ \A i, j \in 1..Len(last.out) : last.out[i] = last.out[j] => i = j
           ELSE last.res = "InvalidPath" /\ last.out = <<>>

C20_Witness ==
    /\ last.op = "find" /\ last.res = "Ok"
    /\ src.kinds = [n \in Names |-> "dir"]
    /\ last.out = <<NameB, NameA>>

(***************************************************************************)
(* C13: for any package, the change events for it that reach the loop      *)
(* before the next tick lead to exactly one relink (plan + execute) of     *)
(* that package in total, when its directory still exists at the tick:     *)
(* the links the loop made for it on receiving the events and the links    *)
(* the tick makes for it are counted together.                             *)
(***************************************************************************)
AttemptsIn(done, name) == Cardinality({i \in DOMAIN done : done[i].pkg = name})

C13_OneRelinkPerTick ==
    [][\A name \in PkgNames :
          (name \in dmn.pend /\ path_is_dir(src, name) /\ Tick)
              => (IF name \in dmn.auto THEN 1 ELSE 0) + AttemptsIn(dmn'.done, name) = 1]_vars

(***************************************************************************)
(* C14: within one tick, a relink of one package of the drained set that   *)
(* fails (in the planner or in the executor) does not prevent the relink   *)
(* of any other package of that set whose directory exists, and the loop   *)
(* is still running after the tick unless a signal asked it to stop.       *)
(***************************************************************************)
C14_FailureDoesNotStopOthers ==
    [][Tick =>
          /\ \A name \in dmn.relink :
                 path_is_dir(src, name) => AttemptsIn(dmn'.done, name) = 1
          /\ dmn.running => (dmn'.pc = "loop" /\ dmn'.running)]_vars

C14_Witness ==
    /\ dmn.pc = "loop"
    /\ dmn.running
    /\ Len(dmn.done) = 2
    /\ dmn.done[1].res # "Ok"
    /\ dmn.done[2].res = "Ok"
    /\ dmn.done[2].created = 1

(***************************************************************************)
(* C21: while the daemon is running the tick does not depend on the        *)
(* arrival of events: a package placed in the relink set is relinked (the  *)
(* set is drained by a tick) also when events keep arriving, so event      *)
(* processing cannot postpone the tick for ever.                           *)
(***************************************************************************)
C21_TickNotPostponed ==
    \A name \in PkgNames :
        (dmn.pc = "loop" /\ name \in dmn.relink)
            ~> (dmn.pc # "loop" \/ name \notin dmn.relink)

(***************************************************************************)
(* C30: after a termination signal has cleared the running flag the loop   *)
(* eventually leaves: it is stopped and the PID marker is removed, whether *)
(* or not further events arrive.                                           *)
(***************************************************************************)
C30_StopsAfterSignal ==
    (dmn.pc = "loop" /\ ~dmn.running) ~> (dmn.pc = "stopped" /\ marker = NoMarker)

C30_Witness ==
    /\ dmn.pc = "stopped"
    /\ ~dmn.running
    /\ marker = NoMarker
    /\ dmn.chan # <<>>

(***************************************************************************)
(* C22: a package whose relink failed during a tick is attempted again at  *)
(* the next tick without a new event for it: the tick leaves it in the     *)
(* relink set, from which the next tick takes its packages.                *)
(***************************************************************************)
C22_FailedRelinkRetried ==
    [][Tick => failed_names(dmn'.done) \subseteq dmn'.relink]_vars

(***************************************************************************)
(* C24: every tick ends with the relink set empty and no pull pending, and *)
(* during the tick each name that was in the relink set and whose          *)
(* directory exists is relinked exactly once.                              *)
(***************************************************************************)
C24_TickDrains ==
    [][Tick =>
          /\ dmn'.relink = {}
          /\ ~dmn'.git
          /\ \A name \in dmn.relink :
                 AttemptsIn(dmn'.done, name) = IF path_is_dir(src', name) THEN 1 ELSE 0]_vars

C24_Witness ==
    /\ dmn.pull = "same"
    /\ Len(dmn.done) = 2
    /\ failed_names(dmn.done) # {}
    /\ dmn.relink = {}
    /\ ~dmn.git

(***************************************************************************)
(* C25: any number (one or more) of GitChanged events received between two *)
(* ticks results in exactly one pull at the next tick, and a tick before   *)
(* which no GitChanged event was received since the previous pull performs *)
(* no pull.                                                                *)
(***************************************************************************)
Pulls(d) == IF d.pull = "" THEN 0 ELSE 1

C25_OnePullPerTick ==
    [][Tick => Pulls(dmn') = IF dmn.gitseen # "none" THEN 1 ELSE 0]_vars

\* C25 as the code has it: the same, for a daemon configured with auto_git_pull;
\* without auto_git_pull a GitChanged event schedules nothing and no tick pulls.
C25_OnePullPerTickIfEnabled ==
    [][Tick => Pulls(dmn') = IF dmn.gitseen # "none" /\ dmn.auto_pull THEN 1 ELSE 0]_vars

C25_Witness ==
    /\ dmn.auto_pull
    /\ dmn.pull # ""
    /\ dmn.pullfor = "many"

(***************************************************************************)
(* C26: on a tick with a pull pending the pull is made before any package  *)
(* is relinked: if it reports new content, every package that is in the    *)
(* source tree after the pull is relinked in that same tick; if it reports *)
(* no change or fails, the tick relinks no package beyond those that were  *)
(* in the relink set already.                                              *)
(***************************************************************************)
Attempted(done) == {done[i].pkg : i \in DOMAIN done}

C26_PullBeforeRelink ==
    [][(Tick /\ dmn.git) =>
          /\ dmn'.pull \in PullOutcomes
          /\ dmn'.pull = "changed" =>
                 \A name \in package_names(src') : AttemptsIn(dmn'.done, name) = 1
          /\ dmn'.pull \in {"same", "failed"} => Attempted(dmn'.done) \subseteq dmn.relink]_vars

C26_Witness ==
    /\ dmn.pull = "changed"
    /\ NameA \notin dmn.known
    /\ Attempted(dmn.done) = PkgNames
    /\ dmn.pend = {}

(***************************************************************************)
(* C27: after the loop has handled a SymlinkDeleted event the relink set   *)
(* contains every package name of the known packages.                      *)
(***************************************************************************)
Receives(type) ==
    dmn.pc = "loop" /\ dmn.chan # <<>> /\ Head(dmn.chan).type = type /\ HandleEvent

C27_SymlinkDeletedMarksKnown ==
    [][Receives("SymlinkDeleted") => dmn'.known \subseteq dmn'.relink]_vars

(***************************************************************************)
(* C28: handling NewPackage(name) for a name that is not a known package   *)
(* adds the name to the known packages and, with auto_link_new_packages,   *)
(* links the package at once and leaves it out of the relink set, so that  *)
(* the next tick does not relink it for the same change; for a name that   *)
(* is known already it only adds the name to the relink set.               *)
(***************************************************************************)
C28_NewPackageBypassesQueue ==
    [][\A name \in PkgNames :
          (Receives("NewPackage") /\ Head(dmn.chan).name = name) =>
              IF name \notin dmn.known
              THEN /\ dmn'.known = dmn.known \cup {name}
                   /\ (dmn.auto_link /\ path_is_dir(src, name)) =>
                          /\ AttemptsIn(dmn'.done, name) = 1
                          /\ name \notin dmn'.relink
              ELSE /\ dmn'.known = dmn.known
                   /\ dmn'.relink = dmn.relink \cup {name}
                   /\ dmn'.done = <<>>]_vars

(***************************************************************************)
(* C29: the known packages grow monotonically during a daemon run: the set *)
(* starts as the result of the initial scan of the source root and no step *)
(* of the loop, event or tick, removes a name from it.                     *)
(***************************************************************************)
C29_KnownGrows ==
    /\ dmn.known = package_names(src)
    /\ [][dmn.known \subseteq dmn'.known]_vars

C29_Witness ==
    /\ dmn.known = PkgNames
    /\ NameA \in dmn.auto
    /\ ~path_is_dir(src, NameA)

(***************************************************************************)
(* C23: in link_package_auto a Create operation for which the conflict     *)
(* resolver answered Ok(false) (Skip) or failed is not executed by the     *)
(* executor, so the executor does not fail on it, and the package's other  *)
(* Create operations are executed: their links are there afterwards.       *)
(***************************************************************************)
Refused(calls) == {calls[i].target : i \in {j \in DOMAIN calls : calls[j].res # "Ok(true)"}}

C23_RefusedCreateLeftOut ==
    [][(last'.op = "auto_apply" /\ Refused(dmn'.calls) # {}) =>
          /\ last'.res = "Ok"
          /\ \A i \in DOMAIN plan :
                 (plan[i].op_type = "Create" /\ plan[i].target \notin Refused(dmn'.calls))
                     => tgt'[plan[i].target] = Link(plan[i].source)]_vars

(***************************************************************************)
(* C31: for a rule with exactly one star, prefix*suffix, glob_match is     *)
(* true exactly when the text starts with the prefix and ends with the     *)
(* suffix, also for a text shorter than prefix and suffix together, in     *)
(* which the two overlap.                                                  *)
(***************************************************************************)
C31_PrefixAndSuffix ==
    ign.done =>
        (ign.ignored <=> (starts_with(ign.path, ign.prefix) /\ ends_with(ign.path, ign.suffix)))

\* C31 as the code has it: the suffix is looked for in what follows the prefix,
\* so the text also has to be at least as long as prefix and suffix together.
C31_PrefixThenSuffix ==
    ign.done =>
        (ign.ignored <=> /\ starts_with(ign.path, ign.prefix)
                         /\ ends_with(ign.path, ign.suffix)
                         /\ Len(ign.path) >= Len(ign.prefix) + Len(ign.suffix))

C31_Witness ==
    /\ ign.done /\ ign.ignored
    /\ ign.prefix = <<"a">> /\ ign.suffix = <<"b", "a">>
    /\ ign.path = <<"a", "b", "a">>

(***************************************************************************)
(* C32: when a directory of the package is ignored, analyze emits exactly  *)
(* one Skip(ignored) operation for the directory and nothing for what is   *)
(* beneath it: no operation and no conflict error, whatever the target     *)
(* tree holds at the corresponding paths.                                  *)
(***************************************************************************)
IgnoredDir(id) == id \in DirIds /\ id \in pkg.entries /\ Ignored(id)

Beneath(dir) == {id \in PIds : Parent(id) = dir}

C32_IgnoredDirNotEntered ==
    \A dir \in DirIds :
        (PlannerCalled /\ IgnoredDir(dir)) =>
            /\ last.at \notin Beneath(dir)
            /\ last.res # "ConflictDetected" =>
                   /\ Cardinality(OpsFor(plan, dir)) = 1
                   /\ \A i \in OpsFor(plan, dir) : plan[i].op_type = SkipIgnored
                   /\ \A id \in Beneath(dir) : OpsFor(plan, id) = {}

C32_Witness ==
    /\ last.op = "analyze" /\ last.res = "Ok"
    /\ IgnoredDir("conf")
    /\ "conf/init.lua" \in pkg.entries
    /\ tgt["conf"] = Dir /\ tgt["conf/init.lua"] = File("c1")
    /\ OpsFor(plan, "conf") # {}

(***************************************************************************)
(* C33: a real run of the executor changes only the target paths named in  *)
(* its operations and the missing parent directories of those paths, which *)
(* it creates; it changes nothing in the package source tree.              *)
(***************************************************************************)
Named(ops) == {ops[i].target : i \in DOMAIN ops}

RealRun == last'.op = "execute_once" /\ ~last'.dry

C33_OnlyNamedTargets ==
    [][RealRun =>
          /\ pkg' = pkg
          /\ \A id \in TIds :
                 tgt'[id] # tgt[id] =>
                     \/ id \in Named(plan')
                     \/ /\ \E c \in Named(plan') : Parent(c) = id
                        /\ tgt[id] = Absent
                        /\ tgt'[id] = Dir]_vars

C33_Witness ==
    /\ last.op = "execute_once" /\ ~last.dry /\ last.res = "Ok"
    /\ Named(plan) = {"conf/init.lua"}
    /\ tgt["conf"] = Dir
    /\ tgt["conf/init.lua"] = Link("conf/init.lua")
    /\ tgt["keep.txt"] = File("c1")

(***************************************************************************)
(* C36: a real run of the executor stops at the first operation that       *)
(* fails (a Create that cannot make its link): the operations before it    *)
(* stay applied, the operations after it are not attempted, and the call   *)
(* returns the error and no result messages.                               *)
(***************************************************************************)
\* the tree on which operation k of the list runs, when all before it succeed
Before(ops, k) == execute_operations(tgt, SubSeq(ops, 1, k - 1), FALSE)

CannotLink(t, op) ==
    /\ op.op_type = "Create"
    /\ \/ t[op.target] # Absent
       \/ Parent(op.target) # "root" /\ t[Parent(op.target)].kind \in {"file", "link"}

C36_StopsAtFirstFailure ==
    [][(RealRun /\ last'.res # "Ok") =>
          /\ last'.out = <<>>
          /\ \E k \in DOMAIN plan' :
                 /\ Before(plan', k).err = ""
                 /\ CannotLink(Before(plan', k).t, plan'[k])
                 /\ tgt' = Before(plan', k).t]_vars

C36_Witness ==
    /\ last.op = "execute_once" /\ ~last.dry /\ last.res = "Io" /\ last.out = <<>>
    /\ Len(plan) = 2
    /\ plan[1] = [source |-> "conf/init.lua", target |-> "conf/init.lua", op_type |-> "Create"]
    /\ plan[2] = [source |-> "keep.txt", target |-> "keep.txt", op_type |-> "Create"]
    /\ tgt["conf/init.lua"] = Link("conf/init.lua")
    /\ tgt["keep.txt"] = File("c1")

(***************************************************************************)
(* C34: every creation or removal of an entry of the target tree that the  *)
(* program performs is performed by the executor: during an automatic link *)
(* of a package an entry changes only as execute_operations changes it, a  *)
(* missing entry becoming a link or a parent directory, or a link being    *)
(* removed.                                                                *)
(***************************************************************************)
ExecutorChange(old, new) ==
    \/ old = Absent /\ new.kind \in {"link", "dir"}
    \/ old.kind = "link" /\ new = Absent

C34_OnlyExecutorChangesTarget ==
    [][last'.op = "auto_apply" =>
          \A id \in TIds : tgt'[id] # tgt[id] => ExecutorChange(tgt[id], tgt'[id])]_vars

(***************************************************************************)
(* C35: planning is all-or-nothing for a package: when the target of any   *)
(* package file that the walk classifies exists and is not the link to     *)
(* that file, analyze returns ConflictDetected and no operation list, and  *)
(* a one-shot link of the package leaves the target tree as it was, the    *)
(* targets of its other files included.                                    *)
(***************************************************************************)
Classified(id) == PackageFile(id) /\ Walked(id) /\ ~Ignored(id)

Conflicting(id) == exists(tgt, id) /\ tgt[id] # Link(id)

C35_ConflictLinksNothing ==
    [][(last'.op \in {"analyze", "link"} /\ \E id \in TIds : Classified(id) /\ Conflicting(id))
          => /\ last'.res = "ConflictDetected"
             /\ plan' = <<>>
             /\ last'.out = <<>>
             /\ tgt' = tgt]_vars

C35_Witness ==
    /\ last.op = "link" /\ ~last.dry /\ last.res = "ConflictDetected"
    /\ plan = <<>>
    /\ \E id \in TIds : Classified(id) /\ Conflicting(id) /\ tgt[id].kind = "link"
    /\ \E id \in TIds : Classified(id) /\ tgt[id] = Absent /\ reachable(tgt, id)

(***************************************************************************)
(* C37: under the Backup policy no file content of the target tree is      *)
(* lost in an automatic link: the content of every plain file that the     *)
(* step deletes is in its .backup file afterwards, and a .backup file that *)
(* existed before the step still has the content it had.                   *)
(***************************************************************************)
C37_BackupLosesNothing ==
    [][(dmn.policy = "Backup" /\ last'.op = "auto_apply") =>
          \A id \in TIds :
              /\ (tgt[id].kind = "file" /\ tgt'[id] # tgt[id]) => bak'[id] = tgt[id]
              /\ bak[id].kind = "file" => bak'[id] = bak[id]]_vars

(***************************************************************************)
(* C38: the PID marker is removed only on behalf of the process it names:  *)
(* no step of a daemon that shuts down, of stop_daemon or of a status      *)
(* query deletes a marker that holds the pid of another daemon that is     *)
(* running before and after the step.                                      *)
(***************************************************************************)
RunningDaemon(q) == proc[q].cmd = "run" /\ proc[q].pc = "loop" /\ proc[q].running

C38_MarkerRemovedForOwner ==
    [][\A q \in Procs :
          (marker.file = "pid" /\ marker.pid = q /\ RunningDaemon(q) /\ RunningDaemon(q)')
              => marker'.file # "absent"]_vars

(***************************************************************************)
(* C39: once the running flag is cleared the loop handles at most one more *)
(* wake-up, an event or a tick with the relinks it performs, and then      *)
(* exits; after the exit nothing is relinked, so the packages that are     *)
(* still in the relink set are dropped.                                    *)
(***************************************************************************)
C39_OneWakeUpAfterStop ==
    [][/\ ((HandleEvent \/ Tick) /\ ~dmn.running) => dmn'.pc = "stopped"
       /\ dmn.pc = "stopped" => (dmn' = dmn /\ homes' = homes)]_vars

C39_Witness ==
    /\ dmn.pc = "stopped"
    /\ ~dmn.running
    /\ dmn.relink = {NameA}
    /\ homes[NameA]["keep.txt"] = Absent
    /\ src.kinds[NameA] = "dir"

(***************************************************************************)
(* C40: with auto_link_new_packages disabled the daemon never links a      *)
(* package that was not a known package at startup: whatever events and    *)
(* ticks the appearance of its files causes, its file is never linked in   *)
(* the target tree.  Stated for the package a of SpecNew, which does not   *)
(* exist when the daemon starts.                                           *)
(***************************************************************************)
C40_NewPackageNeverLinked == homes[NameA]["keep.txt"] # Link("keep.txt")

====
